---- MODULE Spec2Model ----
(***************************************************************************)
(* State-machine model of src/src/app/credit/page.tsx: the page component  *)
(* CreditCardInfoPage, its four validation helpers, the reactive effect    *)
(* that derives cardType, the submit handler, the awaited POST and the     *)
(* navigation timer.                                                       *)
(*                                                                         *)
(* Strings that the code inspects character by character (the five form    *)
(* fields) are sequences of one-character strings; strings the code only   *)
(* compares or prints (card type names, notice texts) are TLA+ strings.    *)
(***************************************************************************)
EXTENDS Integers, Sequences, FiniteSets, TLC

--------------------------------------------------------------------------
(* Characters and small string helpers                                     *)

DigitChars == {"0", "1", "2", "3", "4", "5", "6", "7", "8", "9"}

\* Number(c) for a single decimal digit character
DigitVal(c) ==
  CASE c = "0" -> 0 [] c = "1" -> 1 [] c = "2" -> 2 [] c = "3" -> 3
    [] c = "4" -> 4 [] c = "5" -> 5 [] c = "6" -> 6 [] c = "7" -> 7
    [] c = "8" -> 8 [] c = "9" -> 9

IsDigitChar(c) == c \in DigitChars

\* s.replace(/\D/g, '')
StripNonDigits(s) == SelectSeq(s, IsDigitChar)

\* /^\d{n}$/.test(s)
IsDigitsOfLen(s, n) == Len(s) = n /\ \A i \in 1..Len(s) : s[i] \in DigitChars

--------------------------------------------------------------------------
(* getCardType                                                             *)

\* the MasterCard rule with the range of the second digit one too wide
getCardType_WideMaster(number) ==
  LET cleaned == StripNonDigits(number)
      n == Len(cleaned)
  IN  IF n \in {13, 16} /\ cleaned[1] = "4" THEN "Visa"
      ELSE IF n = 16 /\ cleaned[1] = "5"
                /\ cleaned[2] \in {"0", "1", "2", "3", "4", "5"} THEN "MasterCard"
      ELSE IF n = 15 /\ cleaned[1] = "3"
                /\ cleaned[2] \in {"4", "7"} THEN "American Express"
      ELSE IF n = 16 /\ cleaned[1] = "6"
                /\ (   (cleaned[2] = "0" /\ cleaned[3] = "1" /\ cleaned[4] = "1")
                    \/ cleaned[2] = "5") THEN "Discover"
      ELSE "Unknown"

getCardType(number) ==
  LET cleaned == StripNonDigits(number)
      n == Len(cleaned)
  IN  IF n \in {13, 16} /\ cleaned[1] = "4" THEN "Visa"
      ELSE IF n = 16 /\ cleaned[1] = "5"
                /\ cleaned[2] \in {"1", "2", "3", "4", "5"} THEN "MasterCard"
      ELSE IF n = 15 /\ cleaned[1] = "3"
                /\ cleaned[2] \in {"4", "7"} THEN "American Express"
      ELSE IF n = 16 /\ cleaned[1] = "6"
                /\ (   (cleaned[2] = "0" /\ cleaned[3] = "1" /\ cleaned[4] = "1")
                    \/ cleaned[2] = "5") THEN "Discover"
      ELSE "Unknown"

--------------------------------------------------------------------------
(* isLuhnValid                                                             *)

\* the callback doubling the digits at even instead of odd indices
LuhnTerm_EvenDoubled(digit, idx) ==
  IF idx % 2 = 0
    THEN LET double == digit * 2 IN IF double > 9 THEN double - 9 ELSE double
    ELSE digit

\* the reduce callback: contribution of one digit at 0-based reversed index idx
LuhnTerm(digit, idx) ==
  IF idx % 2 = 1
    THEN LET double == digit * 2 IN IF double > 9 THEN double - 9 ELSE double
    ELSE digit

RECURSIVE LuhnSum(_, _)
\* sum of LuhnTerm over the first k positions of the reversed digit array,
\* where digits is the cleaned string in its original order
LuhnSum(digits, k) ==
  IF k = 0 THEN 0
  ELSE LuhnSum(digits, k - 1)
         + LuhnTerm(DigitVal(digits[Len(digits) - (k - 1)]), k - 1)

isLuhnValid(cardNum) ==
  LET digits == StripNonDigits(cardNum)
  IN  LuhnSum(digits, Len(digits)) % 10 = 0

--------------------------------------------------------------------------
(* isExpiryValid                                                           *)

RECURSIVE SplitSlash(_)
\* expiry.split('/'): the sequence of segments between '/' characters
SplitSlash(s) ==
  IF \A i \in 1..Len(s) : s[i] # "/" THEN <<s>>
  ELSE LET p == CHOOSE i \in 1..Len(s) :
                  s[i] = "/" /\ \A j \in 1..(i - 1) : s[j] # "/"
       IN  <<SubSeq(s, 1, p - 1)>> \o SplitSlash(SubSeq(s, p + 1, Len(s)))

WhiteChars == {" "}

RECURSIVE SkipWhite(_)
SkipWhite(s) ==
  IF Len(s) > 0 /\ s[1] \in WhiteChars THEN SkipWhite(Tail(s)) ELSE s

RECURSIVE DecPrefix(_, _)
\* value of the longest decimal-digit prefix of s, acc the value read so far
DecPrefix(s, acc) ==
  IF Len(s) > 0 /\ s[1] \in DigitChars
    THEN DecPrefix(Tail(s), acc * 10 + DigitVal(s[1]))
    ELSE acc

HexChars == DigitChars \cup {"a", "b", "c", "d", "e", "f", "A", "B", "C", "D", "E", "F"}

HexVal(c) ==
  IF c \in DigitChars THEN DigitVal(c)
  ELSE CASE c \in {"a", "A"} -> 10 [] c \in {"b", "B"} -> 11
         [] c \in {"c", "C"} -> 12 [] c \in {"d", "D"} -> 13
         [] c \in {"e", "E"} -> 14 [] c \in {"f", "F"} -> 15

RECURSIVE HexPrefix(_, _)
HexPrefix(s, acc) ==
  IF Len(s) > 0 /\ s[1] \in HexChars
    THEN HexPrefix(Tail(s), acc * 16 + HexVal(s[1]))
    ELSE acc

\* parseInt(s) with no radix argument: leading white space is skipped, one
\* sign is read, a 0x / 0X prefix selects radix 16, and the longest digit
\* prefix is converted; nan marks the NaN result (no digit could be read)
parseInt(s) ==
  LET t == SkipWhite(s)
      signed == Len(t) > 0 /\ t[1] \in {"+", "-"}
      u == IF signed THEN Tail(t) ELSE t
      hex == Len(u) >= 2 /\ u[1] = "0" /\ u[2] \in {"x", "X"}
      body == IF hex THEN SubSeq(u, 3, Len(u)) ELSE u
      v == IF hex THEN HexPrefix(body, 0) ELSE DecPrefix(body, 0)
      none == Len(body) = 0
                \/ (IF hex THEN body[1] \notin HexChars
                           ELSE body[1] \notin DigitChars)
  IN  IF none THEN [nan |-> TRUE, val |-> 0]
      ELSE [nan |-> FALSE, val |-> IF signed /\ t[1] = "-" THEN 0 - v ELSE v]

\* a moment of time is the index of the calendar month it lies in
\* (year * 12 + zero-based month); new Date(y, m, 1) is the first instant of
\* month index y * 12 + m, which is later than now iff its index is greater
MonthIndex(year, month0) == year * 12 + month0

isExpiryValid(expiry, now) ==
  LET parts == SplitSlash(expiry)
  IN  IF Len(parts) < 2 THEN FALSE
      ELSE LET month == parts[1]
               year == parts[2]
           IN  IF Len(month) = 0 \/ Len(year) = 0
                    \/ Len(month) # 2 \/ Len(year) # 2 THEN FALSE
               ELSE LET y == parseInt(year)
                        m == parseInt(month)
                    IN  IF y.nan \/ m.nan THEN FALSE
                        ELSE MonthIndex(2000 + y.val, m.val - 1) > now

--------------------------------------------------------------------------
(* isCVVValid                                                              *)

\* the check without the American Express case
isCVVValid_AlwaysThree(cvv, ct) == IsDigitsOfLen(cvv, 3)

isCVVValid(cvv, ct) ==
  IF ct = "American Express" THEN IsDigitsOfLen(cvv, 4)
  ELSE IsDigitsOfLen(cvv, 3)

--------------------------------------------------------------------------
(* Bounds and input domains                                                *)

\* number of submit events explored
MaxSubmits == 2

Empty == <<>>
Visa16 == <<"4", "1", "1", "1", "1", "1", "1", "1", "1", "1", "1", "1", "1", "1", "1", "1">>
Visa16Bad == <<"4", "1", "1", "1", "1", "1", "1", "1", "1", "1", "1", "1", "1", "1", "1", "2">>
Master16 == <<"5", "5", "0", "0", "0", "0", "0", "0", "0", "0", "0", "0", "0", "0", "0", "4">>
Amex15 == <<"3", "7", "8", "2", "8", "2", "2", "4", "6", "3", "1", "0", "0", "0", "5">>
LoneZero == <<"0">>
ShortBad == <<"1", "2">>
Cvv3 == <<"1", "2", "3">>
Cvv4 == <<"1", "2", "3", "4">>
ExpFar == <<"1", "2", "/", "3", "0">>
ExpNear == <<"1", "1", "/", "2", "6">>
HolderA == <<"A">>
ZipZ == <<"Z">>

FieldNames == {"cardholder", "cardNumber", "expiry", "cvv", "billingZip"}

\* the values a change event may carry for each input
FieldValues(name) ==
  CASE name = "cardholder" -> {Empty, HolderA}
    [] name = "cardNumber" -> {Empty, Visa16, Visa16Bad, Master16, Amex15,
                               LoneZero, ShortBad}
    [] name = "expiry"     -> {Empty, ExpFar, ExpNear}
    [] name = "cvv"        -> {Empty, Cvv3, Cvv4}
    [] name = "billingZip" -> {Empty, ZipZ}

\* the moments the clock passes through: October and November 2026
FirstNow == MonthIndex(2026, 9)
LastNow == MonthIndex(2026, 10)
Nows == FirstNow..LastNow

--------------------------------------------------------------------------
(* Page state                                                              *)

VARIABLES
  formData,      \* useState: the five fields
  alertVisible,  \* useState
  isSubmitting,  \* useState
  cardType,      \* useState
  effectDeps,    \* dependency array of the last run of the effect
  inflight,      \* request bodies of POSTs awaiting their response
  timers,        \* pending setTimeout callbacks
  route,         \* current route of the browser
  clock,         \* the current moment, as new Date() reads it
  submits,       \* submit events handled
  posted,        \* POSTs issued
  succeeded,     \* POSTs that resolved
  alerts,        \* alert() calls
  lastAlert,     \* text of the latest alert() call
  logs,          \* console.error calls
  navigations    \* router.push calls

vars == <<clock, formData, alertVisible, isSubmitting, cardType, effectDeps,
          inflight, timers, route, submits, posted, succeeded, alerts,
          lastAlert, logs, navigations>>

TELEGRAM_CHAT_ID == "TELEGRAM_CHAT_ID"

NavigationDelay == 3000

LuhnNotice == "Invalid card number (Luhn check failed)."
TypeNotice == "Unknown or unsupported card type."
ExpiryNotice == "Invalid or expired expiry date."
CvvNotice(ct) ==
  IF ct = "American Express" THEN "CVV must be 4 digits." ELSE "CVV must be 3 digits."
FailNotice == "Failed to send info."

Init ==
  /\ formData = [cardholder |-> Empty, cardNumber |-> Empty, expiry |-> Empty,
                 cvv |-> Empty, billingZip |-> Empty]
  /\ alertVisible = FALSE
  /\ isSubmitting = FALSE
  /\ cardType = ""
  /\ effectDeps = [ran |-> FALSE, cardNumber |-> Empty]
  /\ inflight = <<>>
  /\ timers = <<>>
  /\ route = "/credit"
  /\ clock \in Nows
  /\ submits = 0
  /\ posted = 0
  /\ succeeded = 0
  /\ alerts = 0
  /\ lastAlert = ""
  /\ logs = 0
  /\ navigations = 0

\* the page component is mounted while the browser is on its route
PageMounted == route = "/credit"

\* the form rendered whatever isSubmitting is
FormRendered_NoGate == PageMounted

\* the render gate: the form (inputs and submit button) is rendered only
\* while isSubmitting is false
FormRendered == PageMounted /\ ~isSubmitting

\* useEffect runs after the first render and after every render in which
\* formData.cardNumber differs from the value of the previous run
EffectPending ==
  ~effectDeps.ran \/ effectDeps.cardNumber # formData.cardNumber

\* useEffect callback: setCardType(getCardType(formData.cardNumber)), and the
\* render that applies this update.  The callback runs after the render
\* that changed cardNumber has been committed and its update is applied in
\* a render of its own, so the page passes through states that hold the new
\* cardNumber and the previous cardType; events delivered in between find
\* the handlers of that render.
Effect ==
  /\ PageMounted
  /\ EffectPending
  /\ cardType' = getCardType(formData.cardNumber)
  /\ effectDeps' = [ran |-> TRUE, cardNumber |-> formData.cardNumber]
  /\ UNCHANGED <<clock, formData, alertVisible, isSubmitting, inflight, timers, route,
                 submits, posted, succeeded, alerts, lastAlert, logs, navigations>>

\* setFormData({ [name]: value }): the spread of the previous fields is lost
handleChange_NoSpread(name, value) ==
  /\ FormRendered
  /\ formData' = [f \in FieldNames |-> IF f = name THEN value ELSE Empty]
  /\ UNCHANGED <<clock, alertVisible, isSubmitting, cardType, effectDeps,
                 inflight, timers, route, submits, posted, succeeded, alerts, lastAlert,
                 logs, navigations>>

\* a change handler that also hides the banner
handleChange_HidesBanner(name, value) ==
  /\ FormRendered
  /\ formData' = [formData EXCEPT ![name] = value]
  /\ alertVisible' = FALSE
  /\ UNCHANGED <<clock, isSubmitting, cardType, effectDeps, inflight, timers,
                 route, submits, posted, succeeded, alerts, lastAlert, logs,
                 navigations>>

\* handleChange: setFormData((prev) => ({ ...prev, [name]: value }))
handleChange(name, value) ==
  /\ FormRendered
  /\ formData' = [formData EXCEPT ![name] = value]
  /\ UNCHANGED <<clock, alertVisible, isSubmitting, cardType, effectDeps, inflight,
                 timers, route, submits, posted, succeeded, alerts, lastAlert, logs,
                 navigations>>

\* the template literal: the labelled lines of the message, in order
MessageText(fd, ct, now) ==
  << <<"Cardholder", fd.cardholder>>,
     <<"Card Number", fd.cardNumber>>,
     <<"Card Type", ct>>,
     <<"Expiry", fd.expiry>>,
     <<"CVV", fd.cvv>>,
     <<"Billing ZIP", fd.billingZip>>,
     <<"Time", now>> >>

\* the JSON body handed to axios.post
RequestBody(fd, ct, now) ==
  [chat_id |-> TELEGRAM_CHAT_ID, text |-> MessageText(fd, ct, now),
   parse_mode |-> "Markdown"]

\* the emptiness check without its last operand
AnyFieldEmpty_NoZip(fd) ==
  \/ fd.cardholder = Empty
  \/ fd.cardNumber = Empty
  \/ fd.expiry = Empty
  \/ fd.cvv = Empty

\* !cardholder || !cardNumber || !expiry || !cvv || !billingZip
AnyFieldEmpty(fd) ==
  \/ fd.cardholder = Empty
  \/ fd.cardNumber = Empty
  \/ fd.expiry = Empty
  \/ fd.cvv = Empty
  \/ fd.billingZip = Empty

\* one alert(text) call that ends the handler
Notice(text) ==
  /\ alerts' = alerts + 1
  /\ lastAlert' = text
  /\ UNCHANGED <<alertVisible, isSubmitting, inflight, posted>>

\* the handler clearing the CVV field once the request is sent
handleSubmit_ClearsCvv ==
  /\ FormRendered
  /\ submits < MaxSubmits
  /\ submits' = submits + 1
  /\ IF AnyFieldEmpty(formData)
       THEN /\ alertVisible' = TRUE
            /\ UNCHANGED <<isSubmitting, inflight, posted, alerts, lastAlert,
                           formData>>
     ELSE IF ~isLuhnValid(formData.cardNumber)
       THEN Notice(LuhnNotice) /\ UNCHANGED formData
     ELSE IF cardType = "Unknown"
       THEN Notice(TypeNotice) /\ UNCHANGED formData
     ELSE IF ~isExpiryValid(formData.expiry, clock)
       THEN Notice(ExpiryNotice) /\ UNCHANGED formData
     ELSE IF ~isCVVValid(formData.cvv, cardType)
       THEN Notice(CvvNotice(cardType)) /\ UNCHANGED formData
     ELSE /\ isSubmitting' = TRUE
          /\ inflight' = Append(inflight, RequestBody(formData, cardType, clock))
          /\ posted' = posted + 1
          /\ formData' = [formData EXCEPT !.cvv = Empty]
          /\ UNCHANGED <<alertVisible, alerts, lastAlert>>
  /\ UNCHANGED <<clock, cardType, effectDeps, timers, route, succeeded, logs,
                 navigations>>

\* the handler with setIsSubmitting(true) ahead of the format checks
handleSubmit_EarlyLoading ==
  /\ FormRendered
  /\ submits < MaxSubmits
  /\ submits' = submits + 1
  /\ IF AnyFieldEmpty(formData)
       THEN /\ alertVisible' = TRUE
            /\ UNCHANGED <<isSubmitting, inflight, posted, alerts, lastAlert>>
     ELSE /\ isSubmitting' = TRUE
          /\ UNCHANGED alertVisible
          /\ LET Stop(text) == /\ alerts' = alerts + 1
                               /\ lastAlert' = text
                               /\ UNCHANGED <<inflight, posted>>
             IN  IF ~isLuhnValid(formData.cardNumber) THEN Stop(LuhnNotice)
                 ELSE IF cardType = "Unknown" THEN Stop(TypeNotice)
                 ELSE IF ~isExpiryValid(formData.expiry, clock)
                   THEN Stop(ExpiryNotice)
                 ELSE IF ~isCVVValid(formData.cvv, cardType)
                   THEN Stop(CvvNotice(cardType))
                 ELSE /\ inflight' = Append(inflight,
                                     RequestBody(formData, cardType, clock))
                      /\ posted' = posted + 1
                      /\ UNCHANGED <<alerts, lastAlert>>
  /\ UNCHANGED <<clock, formData, cardType, effectDeps, timers, route, succeeded,
                 logs, navigations>>

\* the handler with the card type tested before the Luhn check
handleSubmit_TypeFirst ==
  /\ FormRendered
  /\ submits < MaxSubmits
  /\ submits' = submits + 1
  /\ IF AnyFieldEmpty(formData)
       THEN /\ alertVisible' = TRUE
            /\ UNCHANGED <<isSubmitting, inflight, posted, alerts, lastAlert>>
     ELSE IF cardType = "Unknown" THEN Notice(TypeNotice)
     ELSE IF ~isLuhnValid(formData.cardNumber) THEN Notice(LuhnNotice)
     ELSE IF ~isExpiryValid(formData.expiry, clock) THEN Notice(ExpiryNotice)
     ELSE IF ~isCVVValid(formData.cvv, cardType) THEN Notice(CvvNotice(cardType))
     ELSE /\ isSubmitting' = TRUE
          /\ inflight' = Append(inflight, RequestBody(formData, cardType, clock))
          /\ posted' = posted + 1
          /\ UNCHANGED <<alertVisible, alerts, lastAlert>>
  /\ UNCHANGED <<clock, formData, cardType, effectDeps, timers, route, succeeded,
                 logs, navigations>>

\* handleSubmit up to the await: the checks in order, then the POST.  The
\* handler reads formData and cardType of the committed render; the update
\* of isSubmitting made in a submit event is rendered before the next event
\* is dispatched, so the step ends with the loading view in place.
handleSubmit ==
  /\ FormRendered
  /\ submits < MaxSubmits
  /\ submits' = submits + 1
  /\ IF AnyFieldEmpty(formData)
       THEN /\ alertVisible' = TRUE
            /\ UNCHANGED <<isSubmitting, inflight, posted, alerts, lastAlert>>
     ELSE IF ~isLuhnValid(formData.cardNumber) THEN Notice(LuhnNotice)
     ELSE IF cardType = "Unknown" THEN Notice(TypeNotice)
     ELSE IF ~isExpiryValid(formData.expiry, clock) THEN Notice(ExpiryNotice)
     ELSE IF ~isCVVValid(formData.cvv, cardType) THEN Notice(CvvNotice(cardType))
     ELSE /\ isSubmitting' = TRUE
          /\ inflight' = Append(inflight, RequestBody(formData, cardType, clock))
          /\ posted' = posted + 1
          /\ UNCHANGED <<alertVisible, alerts, lastAlert>>
  /\ UNCHANGED <<clock, formData, cardType, effectDeps, timers, route, succeeded, logs,
                 navigations>>

\* a continuation that clears isSubmitting once the POST has resolved
PostResolved_ClearsLoading ==
  /\ inflight # <<>>
  /\ inflight' = Tail(inflight)
  /\ succeeded' = succeeded + 1
  /\ isSubmitting' = FALSE
  /\ timers' = Append(timers, [delay |-> NavigationDelay, target |-> "/sms"])
  /\ UNCHANGED <<clock, formData, alertVisible, cardType, effectDeps, route,
                 submits, posted, alerts, lastAlert, logs, navigations>>

\* the awaited POST resolves: setTimeout(() => router.push('/sms'), 3000)
PostResolved ==
  /\ inflight # <<>>
  /\ inflight' = Tail(inflight)
  /\ succeeded' = succeeded + 1
  /\ timers' = Append(timers, [delay |-> NavigationDelay, target |-> "/sms"])
  /\ UNCHANGED <<clock, formData, alertVisible, isSubmitting, cardType, effectDeps,
                 route, submits, posted, alerts, lastAlert, logs, navigations>>

\* a catch block that leaves isSubmitting set
PostRejected_StaysLoading ==
  /\ inflight # <<>>
  /\ inflight' = Tail(inflight)
  /\ logs' = logs + 1
  /\ alerts' = alerts + 1
  /\ lastAlert' = FailNotice
  /\ UNCHANGED <<clock, formData, alertVisible, isSubmitting, cardType,
                 effectDeps, timers, route, submits, posted, succeeded,
                 navigations>>

\* a catch block that also schedules the navigation
PostRejected_Navigates ==
  /\ inflight # <<>>
  /\ inflight' = Tail(inflight)
  /\ isSubmitting' = FALSE
  /\ logs' = logs + 1
  /\ alerts' = alerts + 1
  /\ lastAlert' = FailNotice
  /\ timers' = Append(timers, [delay |-> NavigationDelay, target |-> "/sms"])
  /\ UNCHANGED <<clock, formData, alertVisible, cardType, effectDeps, route,
                 submits, posted, succeeded, navigations>>

\* a catch block that sends the request once more after the first failure
PostRejected_Retries ==
  /\ inflight # <<>>
  /\ IF logs = 0
       THEN /\ inflight' = Append(Tail(inflight), Head(inflight))
            /\ posted' = posted + 1
            /\ UNCHANGED isSubmitting
       ELSE /\ inflight' = Tail(inflight)
            /\ isSubmitting' = FALSE
            /\ UNCHANGED posted
  /\ logs' = logs + 1
  /\ alerts' = alerts + 1
  /\ lastAlert' = FailNotice
  /\ UNCHANGED <<clock, formData, alertVisible, cardType, effectDeps, timers,
                 route, submits, succeeded, navigations>>

\* the awaited POST rejects: the catch block
PostRejected ==
  /\ inflight # <<>>
  /\ inflight' = Tail(inflight)
  /\ isSubmitting' = FALSE
  /\ logs' = logs + 1
  /\ alerts' = alerts + 1
  /\ lastAlert' = FailNotice
  /\ UNCHANGED <<clock, formData, alertVisible, cardType, effectDeps, timers, route,
                 submits, posted, succeeded, navigations>>

\* the timer callback: router.push('/sms')
TimerFired ==
  /\ timers # <<>>
  /\ route' = Head(timers).target
  /\ timers' = Tail(timers)
  /\ navigations' = navigations + 1
  /\ UNCHANGED <<clock, formData, alertVisible, isSubmitting, cardType, effectDeps,
                 inflight, submits, posted, succeeded, alerts, lastAlert, logs>>

\* time passes
Tick ==
  /\ clock < LastNow
  /\ clock' = clock + 1
  /\ UNCHANGED <<formData, alertVisible, isSubmitting, cardType, effectDeps,
                 inflight, timers, route, submits, posted, succeeded, alerts, lastAlert,
                 logs, navigations>>

Next ==
  \/ Effect
  \/ \E name \in FieldNames : \E value \in FieldValues(name) :
       handleChange(name, value)
  \/ handleSubmit
  \/ PostResolved
  \/ PostRejected
  \/ TimerFired
  \/ Tick

Spec == Init /\ [][Next]_vars

\* the event loop runs every due continuation and timer callback
FairSpec == Spec /\ WF_vars(TimerFired)

--------------------------------------------------------------------------
(* The validation helpers on a wide range of inputs: the page with its     *)
(* fields already typed in, on which the effect and the submit handler     *)
(* apply getCardType, isLuhnValid, isExpiryValid and isCVVValid.           *)

Zeros(n) == [i \in 1..n |-> "0"]

\* a digit string of len digits: prefix, zeros, and a last digit
CardOf(prefix, len, last) == prefix \o Zeros(len - Len(prefix) - 1) \o <<last>>

\* the string as typed with a space after the fourth character
Grouped(s) == SubSeq(s, 1, 4) \o <<" ">> \o SubSeq(s, 5, Len(s))

CardPrefixes == {<<"4">>,
                 <<"5", "0">>,
                 <<"5", "1">>,
                 <<"5", "5">>,
                 <<"5", "6">>,
                 <<"3", "4">>,
                 <<"3", "7">>,
                 <<"3", "5">>,
                 <<"6", "0", "1", "1">>,
                 <<"6", "0", "1", "2">>,
                 <<"6", "5">>,
                 <<"6", "4">>,
                 <<"2">>}

CardLengths == 12..17

PlainCards ==
  {CardOf(p, n, d) : p \in CardPrefixes, n \in CardLengths, d \in DigitChars}

Visa13 == <<"4", "1", "1", "1", "1", "1", "1", "1", "1", "1", "1", "1", "1">>
Discover16 == CardOf(<<"6", "0", "1", "1">>, 16, "7")

CardInputs ==
  PlainCards \cup {Grouped(c) : c \in PlainCards}
    \cup {Visa16, Visa16Bad, Visa13, Master16, Amex15, Discover16, LoneZero,
          ShortBad, Grouped(Visa16), <<"a">>, <<"-", " ">>}

ExpiryInputs ==
  {ExpFar, ExpNear,
   <<"1", "2", "/", "3", "0">>,
   <<"1", "1", "/", "2", "6">>,
   <<"1", "0", "/", "2", "6">>,
   <<"1", "2", "/", "2", "6">>,
   <<"0", "1", "/", "2", "0">>,
   <<"1", "2", "/", "9", "9">>,
   <<"1", "/", "2", "5">>,
   <<"1", "2", "/", "3">>,
   <<"1", "2", "3", "0">>,
   <<"/">>,
   <<"1", "2", "/">>,
   <<"/", "3", "0">>,
   <<"1", "3", "/", "2", "6">>,
   <<"0", "0", "/", "2", "7">>,
   <<"a", "b", "/", "c", "d">>,
   <<"1", "a", "/", "3", "0">>,
   <<"0", "x", "/", "3", "0">>,
   <<" ", "1", "/", "3", "0">>,
   <<"-", "1", "/", "3", "0">>,
   <<"1", "2", "/", "-", "1">>,
   <<"1", "2", "/", "3", "0", "/", "4">>,
   <<"1", "2", "/", "3", "0", "/", "4", "5">>,
   <<"1", "2", "/", "/", "3", "0">>}

CvvInputs ==
  {Cvv3, Cvv4,
   <<"1", "2", "3">>,
   <<"1", "2", "3", "4">>,
   <<"1", "2">>,
   <<"1", "2", "3", "4", "5">>,
   <<"1", "2", "a">>,
   <<"a", "2", "3">>,
   <<"1", " ", "3">>,
   <<" ", "1", "2", "3">>,
   <<"0", "0", "0", "0">>,
   <<"0", "0", "0">>}

CardTypeValues ==
  {"", "Visa", "MasterCard", "American Express", "Discover", "Unknown"}

\* a card number for which the effect leaves cardType at ct
TypeRep(ct) ==
  CASE ct = "Visa" -> Visa16
    [] ct = "MasterCard" -> Master16
    [] ct = "American Express" -> Amex15
    [] ct = "Discover" -> Discover16
    [] ct = "Unknown" -> LoneZero
    [] ct = "" -> Empty

FnNows == Nows \cup {MonthIndex(2026, 11), MonthIndex(2030, 11)}

FilledForm(number, expiry, cvv) ==
  [cardholder |-> HolderA, cardNumber |-> number, expiry |-> expiry,
   cvv |-> cvv, billingZip |-> ZipZ]

\* the page after its fields were typed in: a wide card number before the
\* effect update, or a wide expiry at some moment, or a wide CVV under some
\* cardType left by the effect
FnInit ==
  /\ \/ /\ \E c \in CardInputs : formData = FilledForm(c, ExpFar, Cvv3)
        /\ cardType = ""
        /\ effectDeps = [ran |-> FALSE, cardNumber |-> Empty]
        /\ clock = FirstNow
     \/ /\ \E e \in ExpiryInputs : formData = FilledForm(Visa16, e, Cvv3)
        /\ cardType = "Visa"
        /\ effectDeps = [ran |-> TRUE, cardNumber |-> Visa16]
        /\ clock \in FnNows
     \/ /\ \E v \in CvvInputs, ct \in CardTypeValues :
             /\ formData = FilledForm(IF ct = "" THEN Visa16 ELSE TypeRep(ct),
                                      ExpFar, v)
             /\ cardType = ct
             /\ effectDeps = [ran |-> ct # "", cardNumber |-> TypeRep(ct)]
        /\ clock = FirstNow
  /\ alertVisible = FALSE
  /\ isSubmitting = FALSE
  /\ inflight = <<>>
  /\ timers = <<>>
  /\ route = "/credit"
  /\ submits = 0
  /\ posted = 0
  /\ succeeded = 0
  /\ alerts = 0
  /\ lastAlert = ""
  /\ logs = 0
  /\ navigations = 0

FnNext ==
  \/ Effect
  \/ handleSubmit

FnSpec == FnInit /\ [][FnNext]_vars

--------------------------------------------------------------------------
(* Properties                                                              *)

\* a step in which the submit handler ran
SubmitStep == submits' = submits + 1

SomeFieldEmpty == \E f \in FieldNames : Len(formData[f]) = 0

Last(q) == q[Len(q)]

\* C1: a submit that runs while one of the five fields is the empty string
\* issues no POST, makes alertVisible true, leaves isSubmitting false and
\* raises no notice.
C1_EmptyFieldBlocksSubmit ==
  [][(SubmitStep /\ SomeFieldEmpty) =>
        /\ posted' = posted
        /\ inflight' = inflight
        /\ alertVisible' = TRUE
        /\ isSubmitting = FALSE /\ isSubmitting' = FALSE
        /\ alerts' = alerts /\ lastAlert' = lastAlert]_vars

C1_Witness ==
  /\ submits = 1 /\ alertVisible /\ posted = 0 /\ alerts = 0
  /\ formData.billingZip = Empty
  /\ formData.cardholder = HolderA /\ formData.cardNumber = Visa16
  /\ formData.expiry = ExpFar /\ formData.cvv = Cvv3
  /\ cardType = "Visa"

\* the fields a request body carries, read back from its message text
BodyField(body, line) == body.text[line][2]

\* C2 (as claimed): every POST is issued for form data whose card number
\* passes the Luhn check, whose detected type, derived from that card
\* number, is not Unknown, whose expiry is in the future and whose CVV has
\* the length that type requires.
C2_PostOnlyForValidData ==
  [][posted' = posted + 1 =>
        /\ isLuhnValid(formData.cardNumber)
        /\ getCardType(formData.cardNumber) # "Unknown"
        /\ isExpiryValid(formData.expiry, clock)
        /\ isCVVValid(formData.cvv, getCardType(formData.cardNumber))]_vars

\* C3 (as claimed): cardType equals getCardType of the current card number
\* in every state.
C3_CardTypeIsDerived == cardType = getCardType(formData.cardNumber)

C5_NavigationOnlyAfterSuccess ==
  [][/\ navigations' + Len(timers') <= succeeded'
     /\ (Len(timers') > Len(timers) => succeeded' = succeeded + 1)
     /\ (navigations' # navigations => Len(timers) > 0 /\ succeeded > 0)
     /\ (route' # route => navigations' = navigations + 1)]_vars

C5_Witness ==
  /\ route = "/sms" /\ navigations = 1 /\ succeeded = 1
  /\ logs = 1 /\ alerts = 1

\* C6: from the moment a submit sets isSubmitting for a POST until the
\* navigation, isSubmitting is true as long as the POST is pending or has
\* succeeded; a succeeded POST leads to the navigation, which happens once.
C6_LoadingUntilNavigation ==
  /\ []((inflight # <<>> \/ succeeded > 0) => isSubmitting)
  /\ [](navigations <= 1 /\ navigations <= succeeded)
  /\ ((succeeded > 0) ~> (navigations = 1 /\ route = "/sms"))

C6_Witness ==
  /\ succeeded = 1 /\ navigations = 0 /\ Len(timers) = 1
  /\ isSubmitting /\ route = "/credit"

\* a step in which a pending POST ended without success
RejectStep == Len(inflight') < Len(inflight) /\ succeeded' = succeeded

\* C7: when the POST rejects, isSubmitting becomes false, one diagnostic
\* log entry and one 'Failed to send info' notice are emitted, no
\* navigation timer is scheduled and the page renders the editable form.
C7_FailureResetsForm ==
  [][RejectStep =>
        /\ isSubmitting' = FALSE
        /\ logs' = logs + 1
        /\ alerts' = alerts + 1 /\ lastAlert' = FailNotice
        /\ timers' = timers
        /\ navigations' = navigations
        /\ FormRendered']_vars

C7_Witness ==
  /\ logs = 1 /\ posted = 1 /\ inflight = <<>> /\ succeeded = 0
  /\ ~isSubmitting /\ alerts = 1 /\ lastAlert = FailNotice
  /\ timers = <<>>
  /\ route = "/credit"

\* C8: a submit produces exactly one outcome, that of the first failing
\* check in the order empty field, Luhn, card type (the cardType state is
\* Unknown), expiry, CVV; the POST is issued only when no check fails.
C8_FirstFailingCheckDecides ==
  [][SubmitStep =>
       LET e == SomeFieldEmpty
           l == isLuhnValid(formData.cardNumber)
           t == cardType # "Unknown"
           x == isExpiryValid(formData.expiry, clock)
           c == isCVVValid(formData.cvv, cardType)
           Banner == /\ alertVisible' = TRUE
                     /\ alerts' = alerts /\ lastAlert' = lastAlert
                     /\ posted' = posted
                     /\ inflight' = inflight
           Only(text) == /\ alerts' = alerts + 1 /\ lastAlert' = text
                         /\ alertVisible' = alertVisible /\ posted' = posted
                         /\ inflight' = inflight
           Post == /\ posted' = posted + 1
                   /\ Len(inflight') = Len(inflight) + 1
                   /\ alerts' = alerts /\ lastAlert' = lastAlert
                   /\ alertVisible' = alertVisible
       IN  /\ e => Banner
           /\ (~e /\ ~l) => Only(LuhnNotice)
           /\ (~e /\ l /\ ~t) => Only(TypeNotice)
           /\ (~e /\ l /\ t /\ ~x) => Only(ExpiryNotice)
           /\ (~e /\ l /\ t /\ x /\ ~c) =>
                \E text \in {"CVV must be 3 digits.", "CVV must be 4 digits."} :
                  Only(text)
           /\ (~e /\ l /\ t /\ x /\ c) => Post]_vars

C8_Witness ==
  /\ submits = 1 /\ alerts = 1 /\ lastAlert = LuhnNotice /\ posted = 0
  /\ ~alertVisible
  /\ formData.cardNumber = ShortBad /\ cardType = "Unknown"
  /\ ~isLuhnValid(formData.cardNumber)

\* C9 (as claimed): a submit that issues a POST issues one, whose body
\* carries the configured chat id, parse mode Markdown and a text with the
\* five fields as held and the card type detected for that card number.
C9_PostCarriesDetectedType ==
  [][posted' = posted + 1 =>
       inflight' = Append(inflight,
         [chat_id |-> TELEGRAM_CHAT_ID,
          text |-> << <<"Cardholder", formData.cardholder>>,
                      <<"Card Number", formData.cardNumber>>,
                      <<"Card Type", getCardType(formData.cardNumber)>>,
                      <<"Expiry", formData.expiry>>,
                      <<"CVV", formData.cvv>>,
                      <<"Billing ZIP", formData.billingZip>>,
                      <<"Time", clock>> >>,
          parse_mode |-> "Markdown"])]_vars

\* C10: a change event rewrites one field of the form data and nothing
\* else: the other four fields, alertVisible, isSubmitting and cardType
\* keep their values, the effect that recomputes cardType becomes due
\* only through a change of cardNumber, and cardType changes only in a
\* run of that effect.
C10_ChangeTouchesOneField ==
  [][/\ formData' # formData =>
          /\ \E name \in FieldNames :
               \A f \in FieldNames \ {name} : formData'[f] = formData[f]
          /\ alertVisible' = alertVisible
          /\ isSubmitting' = isSubmitting
          /\ cardType' = cardType
          /\ (formData'.cardNumber = formData.cardNumber
                => EffectPending' = EffectPending)
     /\ cardType' # cardType => (formData' = formData /\ EffectPending)]_vars

C10_Witness ==
  /\ formData.cardNumber = Master16 /\ cardType = "Visa" /\ EffectPending
  /\ formData.cardholder = HolderA /\ formData.cvv = Cvv3
  /\ formData.expiry = ExpFar /\ formData.billingZip = ZipZ
  /\ alertVisible /\ ~isSubmitting

\* the checks of the submit handler all pass on the current state
ChecksPass ==
  /\ \A f \in FieldNames : Len(formData[f]) > 0
  /\ isLuhnValid(formData.cardNumber)
  /\ cardType # "Unknown"
  /\ isExpiryValid(formData.expiry, clock)
  /\ isCVVValid(formData.cvv, cardType)

\* C11: the POST is never retried: a POST is issued only by a submit
\* event whose checks pass, one per such event, so the POSTs issued never
\* exceed the submit events; the failure of a POST issues no request, and
\* the next POST after it comes from a new submit event.
C11_NoAutomaticRetry ==
  /\ [](posted <= submits /\ Len(inflight) + succeeded + logs = posted)
  /\ [][/\ posted' # posted =>
             (SubmitStep /\ ChecksPass /\ posted' = posted + 1)
        /\ RejectStep =>
             (posted' = posted /\ inflight' = Tail(inflight))]_vars

C11_Witness ==
  /\ submits = 2 /\ posted = 2 /\ logs = 1 /\ Len(inflight) = 1
  /\ lastAlert = FailNotice

RECURSIVE DigitsOf(_)
\* the digits of a string, in order
DigitsOf(s) ==
  IF Len(s) = 0 THEN <<>>
  ELSE (IF Head(s) \in DigitChars THEN <<Head(s)>> ELSE <<>>)
         \o DigitsOf(Tail(s))

\* the number a string of digits starts with, read over its first k digits
Leading(d, k) == DecPrefix(SubSeq(d, 1, k), 0)

\* C12: for every input, with d its digits, getCardType returns Visa iff d
\* is 4 followed by 12 or 15 digits, MasterCard iff d has 16 digits and
\* starts 51-55, American Express iff d has 15 digits and starts 34 or 37,
\* Discover iff d has 16 digits and starts 6011 or 65, Unknown otherwise;
\* no input meets two of the four patterns, and the effect stores that
\* result in cardType.
C12_CardTypeByPattern ==
  \A number \in {formData.cardNumber, effectDeps.cardNumber} :
    LET d == DigitsOf(number)
        n == Len(d)
        V == n \in {1 + 12, 1 + 15} /\ d[1] = "4"
        M == n = 16 /\ Leading(d, 2) \in 51..55
        A == n = 15 /\ Leading(d, 2) \in {34, 37}
        D == n = 16 /\ (Leading(d, 4) = 6011 \/ Leading(d, 2) = 65)
        t == getCardType(number)
    IN  /\ t = "Visa" <=> V
        /\ t = "MasterCard" <=> M
        /\ t = "American Express" <=> A
        /\ t = "Discover" <=> D
        /\ t = "Unknown" <=> ~(V \/ M \/ A \/ D)
        /\ ~(V /\ M) /\ ~(V /\ A) /\ ~(V /\ D)
        /\ ~(M /\ A) /\ ~(M /\ D) /\ ~(A /\ D)
        /\ (effectDeps.ran /\ number = effectDeps.cardNumber) => cardType = t

C12_Witness ==
  /\ effectDeps.ran /\ effectDeps.cardNumber = formData.cardNumber
  /\ cardType = "Discover"
  /\ Len(formData.cardNumber) = 17 /\ formData.cardNumber[5] = " "
  /\ formData.cardNumber[2] = "5"

RECURSIVE WeightedFromRight(_, _)
\* sum over a digit string read from its right end, where odd tells whether
\* the rightmost digit stands at an odd index of the reversed sequence
WeightedFromRight(d, odd) ==
  IF Len(d) = 0 THEN 0
  ELSE LET x == DigitVal(d[Len(d)])
       IN  (IF ~odd THEN x ELSE IF 2 * x <= 9 THEN 2 * x ELSE 2 * x - 9)
             + WeightedFromRight(SubSeq(d, 1, Len(d) - 1), ~odd)

LuhnSumDivisible(s) == WeightedFromRight(DigitsOf(s), FALSE) % 10 = 0

\* C13: isLuhnValid is true iff the sum over the reversed digits of the
\* input, d at even and (2d if 2d <= 9 else 2d - 9) at odd indices, is
\* divisible by 10; 4111111111111111 is valid, 4111111111111112 is not,
\* an input without any digit is valid; the submit handler raises the Luhn
\* notice exactly for the inputs that are not valid.
C13_LuhnBySum ==
  /\ isLuhnValid(formData.cardNumber) <=> LuhnSumDivisible(formData.cardNumber)
  /\ isLuhnValid(Visa16) /\ ~isLuhnValid(Visa16Bad)
  /\ (DigitsOf(formData.cardNumber) = <<>> => isLuhnValid(formData.cardNumber))
  /\ submits > 0 =>
       (lastAlert = LuhnNotice <=> ~LuhnSumDivisible(formData.cardNumber))

C13_Witness ==
  /\ formData.cardNumber = <<"-", " ">>
  /\ submits = 1 /\ posted = 1 /\ alerts = 0

\* C14 (as claimed): isExpiryValid is true iff the input splits on '/' into
\* segments of two characters, a month MM and a year YY, and the first day
\* of month MM of year 2000 + YY is later than now; an input without
\* separator or with a segment of another length is invalid.
C14_ExpiryByMonthYear ==
  LET parts == SplitSlash(formData.expiry)
      shaped == /\ Len(parts) >= 2
                /\ \A i \in 1..Len(parts) : Len(parts[i]) = 2
      mm == parseInt(parts[1])
      yy == parseInt(parts[2])
      later == /\ ~mm.nan /\ ~yy.nan
               /\ MonthIndex(2000 + yy.val, mm.val - 1) > clock
  IN  isExpiryValid(formData.expiry, clock) <=> (shaped /\ later)

\* C15: isCVVValid is true iff the CVV consists of exactly 4 digits when
\* cardType is American Express and of exactly 3 digits for every other
\* cardType, Unknown and the initial '' included; the CVV notice of the
\* submit handler is raised for a CVV that fails this and names 4 for
\* American Express and 3 otherwise.
C15_CvvLengthByType ==
  /\ [](LET need == IF cardType = "American Express" THEN 4 ELSE 3
        IN  isCVVValid(formData.cvv, cardType) <=>
              /\ Len(formData.cvv) = need
              /\ \A i \in 1..Len(formData.cvv) : formData.cvv[i] \in DigitChars)
  /\ [][(/\ SubmitStep /\ alerts' = alerts + 1
         /\ lastAlert' \in {"CVV must be 3 digits.", "CVV must be 4 digits."})
        => /\ lastAlert' = IF cardType = "American Express"
                             THEN "CVV must be 4 digits."
                             ELSE "CVV must be 3 digits."
           /\ ~(/\ Len(formData.cvv)
                     = (IF cardType = "American Express" THEN 4 ELSE 3)
                /\ \A i \in 1..Len(formData.cvv) :
                     formData.cvv[i] \in DigitChars)]_vars

C15_Witness ==
  /\ cardType = "American Express" /\ formData.cvv = Cvv3
  /\ submits = 1 /\ alerts = 1 /\ lastAlert = "CVV must be 4 digits."

\* the five fields a request body was built from
FieldsOf(body) ==
  [cardholder |-> BodyField(body, 1), cardNumber |-> BodyField(body, 2),
   expiry |-> BodyField(body, 4), cvv |-> BodyField(body, 5),
   billingZip |-> BodyField(body, 6)]

\* the fields are filled in and valid for the type of their card number
FieldsValid ==
  /\ \A f \in FieldNames : Len(formData[f]) > 0
  /\ isLuhnValid(formData.cardNumber)
  /\ getCardType(formData.cardNumber) # "Unknown"
  /\ isExpiryValid(formData.expiry, clock)
  /\ isCVVValid(formData.cvv, getCardType(formData.cardNumber))

\* C16: the submit handler and its continuations leave the five fields
\* and cardType as they are on every outcome; when the POST fails the form
\* data are those the request was built from and isSubmitting is false,
\* the checks pass again on these fields if they are valid, and a submit
\* whose checks pass after a failure issues a new POST.
C16_SubmitKeepsForm ==
  [][/\ (SubmitStep \/ Len(inflight') # Len(inflight) \/ timers' # timers)
          => (formData' = formData /\ cardType' = cardType)
     /\ RejectStep =>
          /\ formData' = FieldsOf(Head(inflight))
          /\ isSubmitting' = FALSE
          /\ FieldsValid' => ChecksPass'
     /\ (SubmitStep /\ logs > 0 /\ ChecksPass) =>
          (posted' = posted + 1 /\ Len(inflight') = Len(inflight) + 1)]_vars

C16_Witness ==
  /\ logs = 1 /\ submits = 2 /\ posted = 2 /\ Len(inflight) = 1
  /\ formData = FieldsOf(inflight[1])
  /\ formData.cardNumber = Amex15 /\ formData.cvv = Cvv4
  /\ cardType = "American Express"

\* C17: alertVisible is false until a submit event, never goes back from
\* true to false, and goes from false to true only in a submit that finds
\* an empty field; the banner therefore stays through later edits, notices
\* and the loading view.
C17_BannerPersists ==
  /\ [](submits = 0 => ~alertVisible)
  /\ [][/\ alertVisible => alertVisible'
        /\ alertVisible' # alertVisible => (SubmitStep /\ SomeFieldEmpty)]_vars

C17_Witness ==
  /\ alertVisible /\ isSubmitting /\ succeeded = 1 /\ submits = 2
  /\ \A f \in FieldNames : Len(formData[f]) > 0

\* C18: isSubmitting is true only while a POST that has not failed exists,
\* pending or succeeded; a submit that stops at a check, issuing no POST,
\* leaves isSubmitting false.
C18_LoadingOnlyForLivePost ==
  /\ [](isSubmitting => (posted > logs /\ (inflight # <<>> \/ succeeded > 0)))
  /\ [][(SubmitStep /\ posted' = posted) => isSubmitting' = FALSE]_vars

C18_Witness ==
  /\ submits = 2 /\ posted = 1 /\ logs = 1 /\ alerts = 2
  /\ lastAlert = ExpiryNotice /\ ~isSubmitting

====
